---- MODULE Spec2Model ----
(***************************************************************************)
(* Razorpay webhook -> transactional email relay (api/razorpay-webhook.ts) *)
(*                                                                         *)
(* One invocation of the default-exported handler is modelled as a state   *)
(* machine whose steps are the handler's sequential stages: method check,  *)
(* configuration check, raw body capture, signature verification, JSON     *)
(* decoding, event dispatch (field extraction and content generation),     *)
(* the outbound call to the email provider, and the response.              *)
(***************************************************************************)
EXTENDS Integers, Sequences, FiniteSets, TLC

VARIABLES
    req,        \* the inbound request: method, signature header, body bytes on the wire
    env,        \* process.env: the four configuration values
    pc,         \* the handler's position
    rawBody,    \* the buffer produced by readRawBody
    verdict,    \* what verifyRazorpaySignature did
    event,      \* the value produced by JSON.parse
    fields,     \* toEmail, amountPaise, currency, paymentId, reference
    mail,       \* subject and html from buildEmailContent
    emailResp,  \* what sendEmailViaResend returned
    outbox,     \* the calls made to the email provider, in order
    responses,  \* the responses emitted through res, in order
    log         \* the order in which the observable steps happened

vars == <<req, env, pc, rawBody, verdict, event, fields, mail, emailResp,
          outbox, responses, log>>

-----------------------------------------------------------------------------
(* Bounds of the model *)

\* Number of characters of the modelled hex digest (64 for SHA-256).
DigestLen == 2

-----------------------------------------------------------------------------
(* Program constants *)

BLUEPRINT_LINK == "https://drive.google.com/drive/folders/1S8n0feXCtWhDDufW-toGcgO3n-2LDvGm"

COMPLETE_KIT_LINK == "https://drive.google.com/drive/folders/1ktVOK--idZkGvE8ko20uRbgD_Xj7-Zqq"

PRICE_BLUEPRINT_PAISE == 14900

PRICE_COMPLETE_PAISE == 24900

-----------------------------------------------------------------------------
(* JavaScript values: undefined, null, strings and numbers, tagged so that *)
(* values of different types can be compared.                              *)

Undefined == [t |-> "undefined", s |-> "", n |-> 0]

Null == [t |-> "null", s |-> "", n |-> 0]

Str(x) == [t |-> "string", s |-> x, n |-> 0]

Num(x) == [t |-> "number", s |-> "", n |-> x]

Bool(x) == [t |-> "boolean", s |-> "", n |-> IF x THEN 1 ELSE 0]

\* ToBoolean: what `!v` and `a || b` test.
Truthy(v) ==
    \/ v.t = "string" /\ v.s # ""
    \/ v.t = "number" /\ v.n # 0
    \/ v.t = "boolean" /\ v.n = 1

\* What `a ?? b` tests.
Nullish(v) == v.t \in {"undefined", "null"}

\* a || b
Or(a, b) == IF Truthy(a) THEN a ELSE b

\* a ?? b
Coalesce(a, b) == IF Nullish(a) THEN b ELSE a

\* Number -> string for the quotient n / 100 of a non-negative integer n.
FormatHundredths(n) ==
    LET q == n \div 100
        r == n % 100
    IN  IF r = 0 THEN ToString(q)
        ELSE IF r % 10 = 0 THEN ToString(q) \o "." \o ToString(r \div 10)
        ELSE IF r < 10 THEN ToString(q) \o ".0" \o ToString(r)
        ELSE ToString(q) \o "." \o ToString(r)

\* String(v), as a template literal does it.
JSToString(v) ==
    CASE v.t = "undefined" -> "undefined"
      [] v.t = "null" -> "null"
      [] v.t = "string" -> v.s
      [] v.t = "boolean" -> IF v.n = 1 THEN "true" ELSE "false"
      [] OTHER -> ToString(v.n)

-----------------------------------------------------------------------------
(* Strings at the level of characters, for the signature header.  A        *)
(* character carries its width in UTF-8 bytes.  The characters of a hex    *)
(* digest are identified by the key and message they were computed from:   *)
(* HMAC-SHA256 is taken as an ideal keyed hash, so that two digests agree  *)
(* at a position only when key and message agree.                          *)

HexChar(key, msg, i) == [w |-> 1, key |-> key, msg |-> msg, i |-> i]

\* A two-byte character (any code point in U+0080..U+07FF).
WideChar == [w |-> 2, key |-> "", msg |-> <<>>, i |-> 0]

\* crypto.createHmac("sha256", secret).update(rawBody).digest("hex")
HmacSha256Hex(secret, body) == [i \in 1..DigestLen |-> HexChar(secret, body, i)]

RECURSIVE BufferFrom(_)
\* Buffer.from(string): the UTF-8 bytes of the string.
BufferFrom(chars) ==
    IF chars = <<>> THEN <<>>
    ELSE LET c == Head(chars)
         IN  [j \in 1..c.w |-> [c |-> c, b |-> j]] \o BufferFrom(Tail(chars))

\* crypto.timingSafeEqual(a, b): throws on buffers of different length.
TimingSafeEqual(a, b) ==
    IF Len(a) # Len(b) THEN [threw |-> TRUE, eq |-> FALSE]
    ELSE [threw |-> FALSE, eq |-> \A j \in 1..Len(a) : a[j] = b[j]]

\* A header value: absent, or a string of characters.
NoHeader == [present |-> FALSE, chars |-> <<>>]

Header(chars) == [present |-> TRUE, chars |-> chars]

\* Mutant of verifyRazorpaySignature: the length check dropped.
VerifyNoLengthCheck(body, signature, secret) ==
    IF ~signature.present \/ signature.chars = <<>>
    THEN [result |-> FALSE, threw |-> FALSE, compared |-> FALSE]
    ELSE LET a == BufferFrom(HmacSha256Hex(secret, body))
             b == BufferFrom(signature.chars)
             r == TimingSafeEqual(a, b)
         IN  [result |-> r.eq, threw |-> r.threw, compared |-> TRUE]

\* verifyRazorpaySignature(rawBody, signature, secret): its result, whether
\* it threw, and whether it reached timingSafeEqual.
verifyRazorpaySignature(body, signature, secret) ==
    IF ~signature.present \/ signature.chars = <<>>
    THEN [result |-> FALSE, threw |-> FALSE, compared |-> FALSE]
    ELSE LET expected == HmacSha256Hex(secret, body)
             a == BufferFrom(expected)
             b == BufferFrom(signature.chars)
         IN  IF Len(a) # Len(b)
             THEN [result |-> FALSE, threw |-> FALSE, compared |-> FALSE]
             ELSE LET r == TimingSafeEqual(a, b)
                  IN  [result |-> r.eq, threw |-> r.threw, compared |-> TRUE]

-----------------------------------------------------------------------------
(* The request body.  On the wire it is a sequence of tokens of JSON text: *)
(* braces, the literal null, and "key": value members of the event object. *)
(* A member's key is the path of the field below the event (the payment    *)
(* and payment_link paths are the fields of payload.payment.entity and     *)
(* payload.payment_link.entity).                                           *)

Tok(k, v) == [k |-> k, v |-> v]

TokOpen == Tok("{", Undefined)

TokClose == Tok("}", Undefined)

TokNull == Tok("null", Undefined)

KeyOrder ==
    << "event",
       "payment.email", "payment.notes.email", "payment_link.customer.email",
       "payment.amount", "payment_link.amount",
       "payment.currency", "payment_link.currency",
       "payment.id",
       "payment_link.reference_id", "payment_link.id", "payment.order_id" >>

Keys == {KeyOrder[i] : i \in 1..Len(KeyOrder)}

\* JSON.stringify of an event object, given as the values of its fields in
\* key order: the members in that order, the undefined ones omitted.
Serialize(vals) ==
    LET all == [i \in 1..Len(KeyOrder) |-> Tok(KeyOrder[i], vals[i])]
        IsDefined(tok) == tok.v # Undefined
    IN  <<TokOpen>> \o SelectSeq(all, IsDefined) \o <<TokClose>>

\* The decoded value: an object with its own properties, or a non-object.
NonObject == [isObj |-> FALSE, props |-> [k \in {} |-> Undefined]]

\* JSON.parse(rawBody.toString("utf8")): the value, or a SyntaxError.
\* A repeated key keeps its last value.
JSONParse(raw) ==
    IF raw = <<TokNull>> THEN [ok |-> TRUE, val |-> NonObject]
    ELSE IF /\ Len(raw) >= 2
            /\ raw[1] = TokOpen
            /\ raw[Len(raw)] = TokClose
            /\ \A i \in 2..(Len(raw) - 1) : raw[i].k \in Keys
    THEN LET mem == 2..(Len(raw) - 1)
             Last(k) == CHOOSE i \in mem : raw[i].k = k /\ \A j \in mem : raw[j].k = k => j <= i
         IN  [ok |-> TRUE,
              val |-> [isObj |-> TRUE,
                       props |-> [k \in {raw[i].k : i \in mem} |-> raw[Last(k)].v]]]
    ELSE [ok |-> FALSE, val |-> NonObject]

\* event?.a?.b?.c : undefined when the value is no object or lacks the path.
Get(val, k) == IF val.isObj /\ k \in DOMAIN val.props THEN val.props[k] ELSE Undefined

-----------------------------------------------------------------------------
(* Content generation *)

FALLBACK_MESSAGE == "Thanks for your purchase. Your payment was received, but this amount doesn't match 149 or 249. Reply to this email with your Payment ID and we'll help you immediately."

\* Mutant of buildEmailContent: a price point matches every amount that
\* reaches it.
BuildEmailContentAtLeast(amountPaise, currency, paymentId, reference) ==
    LET amountRupees == FormatHundredths(Coalesce(amountPaise, Num(0)).n)
        isComplete == Coalesce(amountPaise, Num(0)).n >= PRICE_COMPLETE_PAISE
        isBlueprint == ~isComplete /\ Coalesce(amountPaise, Num(0)).n >= PRICE_BLUEPRINT_PAISE
        kitTitle == IF isBlueprint THEN "Tactical BA Blueprint"
                    ELSE IF isComplete THEN "Tactical BA Complete Package"
                    ELSE "Tactical BA Purchase"
        linksHtml == IF isBlueprint THEN <<"Tactical BA Blueprint", BLUEPRINT_LINK>>
                     ELSE IF isComplete
                     THEN <<"Tactical BA Blueprint", BLUEPRINT_LINK,
                            "Tactical BA Complete Kit", COMPLETE_KIT_LINK>>
                     ELSE <<FALLBACK_MESSAGE>>
    IN  [subject |-> "Your " \o kitTitle \o " access links",
         html |-> <<"Payment confirmed", JSToString(currency), amountRupees,
                    "Your access links">>
                  \o linksHtml
                  \o <<"Reference:", JSToString(reference),
                       "Payment ID:", JSToString(paymentId)>>]

\* buildEmailContent({amountPaise, currency, paymentId, reference}): the
\* subject and the html, the html as the sequence of its text fragments.
buildEmailContent(amountPaise, currency, paymentId, reference) ==
    LET amountRupees == FormatHundredths(Coalesce(amountPaise, Num(0)).n)
        isBlueprint == amountPaise = Num(PRICE_BLUEPRINT_PAISE)
        isComplete == amountPaise = Num(PRICE_COMPLETE_PAISE)
        kitTitle == IF isBlueprint THEN "Tactical BA Blueprint"
                    ELSE IF isComplete THEN "Tactical BA Complete Package"
                    ELSE "Tactical BA Purchase"
        linksHtml == IF isBlueprint THEN <<"Tactical BA Blueprint", BLUEPRINT_LINK>>
                     ELSE IF isComplete
                     THEN <<"Tactical BA Blueprint", BLUEPRINT_LINK,
                            "Tactical BA Complete Kit", COMPLETE_KIT_LINK>>
                     ELSE <<FALLBACK_MESSAGE>>
    IN  [subject |-> "Your " \o kitTitle \o " access links",
         html |-> <<"Payment confirmed", JSToString(currency), amountRupees,
                    "Your access links">>
                  \o linksHtml
                  \o <<"Reference:", JSToString(reference),
                       "Payment ID:", JSToString(paymentId)>>]

-----------------------------------------------------------------------------
(* Responses and the email provider *)

\* res.status(code).send(text)
SendText(code, text) == [status |-> code, text |-> text, json |-> [k \in {} |-> Undefined]]

\* res.status(code).json(obj): JSON.stringify omits the undefined properties.
SendJson(code, obj) ==
    [status |-> code, text |-> "",
     json |-> [k \in {f \in DOMAIN obj : obj[f] # Undefined} |-> obj[k]]]

\* A property of a response's JSON body, as its receiver reads it.
JsonField(r, k) == IF k \in DOMAIN r.json THEN r.json[k] ELSE Undefined

\* What the email provider may answer: a status and a response text.
ProviderAnswers ==
    { [status |-> 200, text |-> "{id}"],
      [status |-> 422, text |-> "validation_error"],
      [status |-> 500, text |-> ""] }

\* Response.ok
RespOk(status) == status >= 200 /\ status <= 299

NOT_AVAILABLE == "NA"

DEFAULT_CURRENCY == "INR"

NoVerdict == [called |-> FALSE, result |-> FALSE, threw |-> FALSE, compared |-> FALSE]

NoFields == [toEmail |-> Undefined, amountPaise |-> Undefined, currency |-> Undefined,
             paymentId |-> Undefined, reference |-> Undefined]

NoMail == [subject |-> "", html |-> <<>>]

NoEmailResp == [ok |-> FALSE, status |-> 0, text |-> ""]

-----------------------------------------------------------------------------
(* The handler, one action per stage *)

Respond(r) ==
    /\ responses' = Append(responses, r)
    /\ log' = Append(log, "respond")
    /\ pc' = "done"

\* if (req.method !== "POST") return res.status(405).send(...)
MethodCheck ==
    /\ pc = "start"
    /\ IF req.method # "POST"
       THEN Respond(SendText(405, "Method Not Allowed"))
       ELSE /\ pc' = "config"
            /\ UNCHANGED <<responses, log>>
    /\ UNCHANGED <<req, env, rawBody, verdict, event, fields, mail, emailResp, outbox>>

\* Mutant of ConfigCheck: only the webhook secret is required.
ConfigCheckSecretOnly ==
    /\ pc = "config"
    /\ IF ~Truthy(env.RAZORPAY_WEBHOOK_SECRET)
       THEN Respond(SendText(500, "Missing env vars"))
       ELSE /\ pc' = "read"
            /\ UNCHANGED <<responses, log>>
    /\ UNCHANGED <<req, env, rawBody, verdict, event, fields, mail, emailResp, outbox>>

\* if (!webhookSecret || !resendApiKey || !fromEmail) return res.status(500).send(...)
ConfigCheck ==
    /\ pc = "config"
    /\ IF \/ ~Truthy(env.RAZORPAY_WEBHOOK_SECRET)
          \/ ~Truthy(env.RESEND_API_KEY)
          \/ ~Truthy(env.MAIL_FROM)
       THEN Respond(SendText(500, "Missing env vars"))
       ELSE /\ pc' = "read"
            /\ UNCHANGED <<responses, log>>
    /\ UNCHANGED <<req, env, rawBody, verdict, event, fields, mail, emailResp, outbox>>

\* readRawBody: the stream ends and the promise resolves with all the bytes.
ReadBodyEnd ==
    /\ pc = "read"
    /\ rawBody' = req.body
    /\ log' = Append(log, "read")
    /\ pc' = "verify"
    /\ UNCHANGED <<req, env, verdict, event, fields, mail, emailResp, outbox, responses>>

\* readRawBody: the stream errors, the promise rejects and the handler with it.
ReadBodyError ==
    /\ pc = "read"
    /\ pc' = "failed"
    /\ UNCHANGED <<req, env, rawBody, verdict, event, fields, mail, emailResp,
                   outbox, responses, log>>

\* Mutant of VerifySignature: a failed verification is only logged.
VerifySignatureWarnOnly ==
    /\ pc = "verify"
    /\ LET v == verifyRazorpaySignature(rawBody, req.signature, env.RAZORPAY_WEBHOOK_SECRET.s)
       IN  /\ verdict' = [called |-> TRUE, result |-> v.result, threw |-> v.threw,
                          compared |-> v.compared]
           /\ pc' = "decode"
           /\ responses' = responses
           /\ log' = Append(log, "verify")
    /\ UNCHANGED <<req, env, rawBody, event, fields, mail, emailResp, outbox>>

\* if (!verifyRazorpaySignature(rawBody, signature, webhookSecret)) return 401
VerifySignature ==
    /\ pc = "verify"
    /\ LET v == verifyRazorpaySignature(rawBody, req.signature, env.RAZORPAY_WEBHOOK_SECRET.s)
       IN  /\ verdict' = [called |-> TRUE, result |-> v.result, threw |-> v.threw,
                          compared |-> v.compared]
           /\ IF v.threw
              THEN /\ pc' = "failed"
                   /\ responses' = responses
                   /\ log' = Append(log, "verify")
              ELSE IF ~v.result
              THEN /\ pc' = "done"
                   /\ responses' = Append(responses, SendText(401, "Invalid signature"))
                   /\ log' = log \o <<"verify", "respond">>
              ELSE /\ pc' = "decode"
                   /\ responses' = responses
                   /\ log' = Append(log, "verify")
    /\ UNCHANGED <<req, env, rawBody, event, fields, mail, emailResp, outbox>>

\* try { event = JSON.parse(...) } catch { return res.status(400).send(...) }
Decode ==
    /\ pc = "decode"
    /\ LET r == JSONParse(rawBody)
       IN  IF r.ok
           THEN /\ event' = r.val
                /\ pc' = "dispatch"
                /\ responses' = responses
                /\ log' = Append(log, "parse")
           ELSE /\ event' = event
                /\ pc' = "done"
                /\ responses' = Append(responses, SendText(400, "Invalid JSON"))
                /\ log' = log \o <<"parse_failed", "respond">>
    /\ UNCHANGED <<req, env, rawBody, verdict, fields, mail, emailResp, outbox>>

\* Mutant of Recognized: every payment event is acted on.
RecognizedAnyPayment(ev) ==
    ev \in {Str("payment.captured"), Str("payment_link.paid"), Str("payment.failed")}

\* ev === "payment.captured" || ev === "payment_link.paid"
Recognized(ev) == ev = Str("payment.captured") \/ ev = Str("payment_link.paid")

\* The field extraction of the recognized-event branch.
ResolveFields(val, fallbackTo) ==
    [toEmail |->
        Or(Or(Or(Get(val, "payment.email"), Get(val, "payment.notes.email")),
              Get(val, "payment_link.customer.email")),
           fallbackTo),
     amountPaise |->
        Coalesce(Coalesce(Get(val, "payment.amount"), Get(val, "payment_link.amount")),
                 Num(0)),
     currency |->
        Coalesce(Coalesce(Get(val, "payment.currency"), Get(val, "payment_link.currency")),
                 Str(DEFAULT_CURRENCY)),
     paymentId |-> Coalesce(Get(val, "payment.id"), Str(NOT_AVAILABLE)),
     reference |->
        Coalesce(Coalesce(Coalesce(Get(val, "payment_link.reference_id"),
                                   Get(val, "payment_link.id")),
                          Get(val, "payment.order_id")),
                 Str(NOT_AVAILABLE))]

\* Mutant of NoRecipient: only an undefined recipient is skipped.
NoRecipientUndefinedOnly(toEmail) == toEmail = Undefined

\* if (!toEmail)
NoRecipient(toEmail) == ~Truthy(toEmail)

\* The dispatch on the event tag, up to the first await of the branch taken:
\* the acknowledgement of an ignored event, the missing-email response, or
\* the start of the call to the email provider.
Dispatch ==
    /\ pc = "dispatch"
    /\ LET ev == Get(event, "event")
           f == ResolveFields(event, env.FALLBACK_TO_EMAIL)
           m == buildEmailContent(f.amountPaise, f.currency, f.paymentId, f.reference)
       IN  IF ~Recognized(ev)
           THEN /\ Respond(SendJson(200, [ok |-> Bool(TRUE), ignored |-> ev]))
                /\ UNCHANGED <<fields, mail, outbox>>
           ELSE IF NoRecipient(f.toEmail)
           THEN /\ fields' = f
                /\ Respond(SendJson(200, [ok |-> Bool(TRUE),
                                          note |-> Str("No email found in payload")]))
                /\ UNCHANGED <<mail, outbox>>
           ELSE /\ fields' = f
                /\ mail' = m
                /\ outbox' = Append(outbox,
                                    [authorization |-> env.RESEND_API_KEY.s,
                                     from |-> env.MAIL_FROM.s,
                                     to |-> <<f.toEmail>>,
                                     subject |-> m.subject,
                                     html |-> m.html])
                /\ log' = Append(log, "fetch")
                /\ pc' = "send"
                /\ UNCHANGED responses
    /\ UNCHANGED <<req, env, rawBody, verdict, event, emailResp>>

\* sendEmailViaResend resolves: the provider answered, with any status.
FetchResolve ==
    /\ pc = "send"
    /\ \E a \in ProviderAnswers :
          emailResp' = [ok |-> RespOk(a.status), status |-> a.status, text |-> a.text]
    /\ log' = Append(log, "fetched")
    /\ pc' = "reply"
    /\ UNCHANGED <<req, env, rawBody, verdict, event, fields, mail, outbox, responses>>

\* Mutant of FetchReject: a failed call is made once more.
FetchRejectRetry ==
    /\ pc = "send"
    /\ IF Len(outbox) < 2
       THEN /\ outbox' = Append(outbox, outbox[1])
            /\ log' = log \o <<"fetch_failed", "fetch">>
            /\ pc' = "send"
       ELSE /\ outbox' = outbox
            /\ log' = Append(log, "fetch_failed")
            /\ pc' = "failed"
    /\ UNCHANGED <<req, env, rawBody, verdict, event, fields, mail, emailResp, responses>>

\* sendEmailViaResend rejects (fetch or resp.text() fails): nothing catches
\* it, and the handler's promise rejects.
FetchReject ==
    /\ pc = "send"
    /\ log' = Append(log, "fetch_failed")
    /\ pc' = "failed"
    /\ UNCHANGED <<req, env, rawBody, verdict, event, fields, mail, emailResp,
                   outbox, responses>>

\* Mutant of Reply: the provider's failure becomes the handler's.
ReplyPropagatesFailure ==
    /\ pc = "reply"
    /\ IF ~emailResp.ok
       THEN Respond(SendJson(502, [ok |-> Bool(FALSE), resend_error |-> Str(emailResp.text)]))
       ELSE Respond(SendJson(200, [ok |-> Bool(TRUE)]))
    /\ UNCHANGED <<req, env, rawBody, verdict, event, fields, mail, emailResp, outbox>>

\* if (!emailResp.ok) return 200 {ok: false, resend_error}; return 200 {ok: true}
Reply ==
    /\ pc = "reply"
    /\ IF ~emailResp.ok
       THEN Respond(SendJson(200, [ok |-> Bool(FALSE), resend_error |-> Str(emailResp.text)]))
       ELSE Respond(SendJson(200, [ok |-> Bool(TRUE)]))
    /\ UNCHANGED <<req, env, rawBody, verdict, event, fields, mail, emailResp, outbox>>

-----------------------------------------------------------------------------
(* The requests and configurations the handler is started on.  An event    *)
(* object is written as the values of its fields in key order.             *)

EmptyObj == [i \in 1..Len(KeyOrder) |-> Undefined]

Tags == {Str("payment.captured"), Str("payment_link.paid")}

BuyerEvent ==
    <<Str("payment_link.paid"), Undefined, Undefined, Str("cust@example.com"),
      Num(24900), Num(24900), Str("INR"), Undefined, Str("pay_1"),
      Undefined, Str("plink_1"), Undefined>>

NoBuyerEvent ==
    <<Str("payment.captured"), Undefined, Undefined, Undefined,
      Num(14900), Undefined, Undefined, Undefined, Str("pay_1"),
      Undefined, Undefined, Str("order_1")>>

\* Tags the handler does not act on: none, null, empty, other events.
OtherTags ==
    {Undefined, Null, Str(""), Str("order.paid"), Str("payment.failed"),
     Str("Payment.Captured")}

OtherEvent(tag, e1) ==
    <<tag, e1, Undefined, Undefined, Num(14900), Undefined, Undefined,
      Undefined, Str("pay_1"), Undefined, Undefined, Str("order_1")>>

\* Bodies that are not JSON text: the empty body, an object cut short, an
\* object followed by a stray brace, a member outside any object.
MalformedBodies ==
    { <<>>,
      SubSeq(Serialize(BuyerEvent), 1, Len(Serialize(BuyerEvent)) - 1),
      Serialize(BuyerEvent) \o <<TokClose>>,
      <<Tok("event", Str("payment.captured"))>> }

\* The bodies every method, configuration and signature is combined with.
GateBodies ==
    MalformedBodies
    \cup {<<TokNull>>, Serialize(EmptyObj), Serialize(BuyerEvent), Serialize(NoBuyerEvent),
          <<TokOpen, Tok("event", Str("order.paid")), Tok("event", Str("payment.captured")),
            Tok("payment.email", Str("pay@example.com")), TokClose>>}
    \cup {Serialize(OtherEvent(tag, Str("pay@example.com"))) : tag \in OtherTags}

Secrets == {"whsec_1", "whsec_2"}

\* The signature headers tried with a body: none, empty, the digest of the
\* body under each secret, the digest of another body, and digests cut
\* short, extended, changed in one character, or holding wide characters.
SignaturesFor(body) ==
    LET d == HmacSha256Hex("whsec_1", body)
        other == IF body = <<TokNull>> THEN <<>> ELSE <<TokNull>>
    IN  {NoHeader, Header(<<>>)}
        \cup {Header(HmacSha256Hex(k, body)) : k \in Secrets}
        \cup {Header(HmacSha256Hex(k, other)) : k \in Secrets}
        \cup { Header(SubSeq(d, 1, DigestLen - 1)),
               Header(d \o <<d[1]>>),
               Header([d EXCEPT ![1] = HexChar("whsec_2", body, 1)]),
               Header([d EXCEPT ![DigestLen] = HexChar("whsec_1", other, DigestLen)]),
               Header([d EXCEPT ![DigestLen] = WideChar]),
               Header([i \in 1..(DigestLen \div 2) |-> WideChar]
                      \o (IF DigestLen % 2 = 1 THEN <<d[DigestLen]>> ELSE <<>>)) }

Methods == {"POST", "GET"}

GateEnvs ==
    [RAZORPAY_WEBHOOK_SECRET : {Undefined, Str("")} \cup {Str(k) : k \in Secrets},
     RESEND_API_KEY : {Undefined, Str("re_key")},
     MAIL_FROM : {Undefined, Str("Shop <shop@example.com>")},
     FALLBACK_TO_EMAIL : {Undefined, Str("debug@example.com")}]

DispatchEnvs ==
    [RAZORPAY_WEBHOOK_SECRET : {Str("whsec_1")},
     RESEND_API_KEY : {Str("re_key")},
     MAIL_FROM : {Str("Shop <shop@example.com>")},
     FALLBACK_TO_EMAIL : {Undefined, Str(""), Str("debug@example.com")}]

\* A POST of the event, signed under the secret whsec_1.
SignedPost(vals) ==
    [method |-> "POST",
     signature |-> Header(HmacSha256Hex("whsec_1", Serialize(vals))),
     body |-> Serialize(vals)]

\* The handler is invoked on request r under configuration e.
StartOn(r, e) ==
    /\ req = r
    /\ env = e
    /\ pc = "start"
    /\ rawBody = <<>>
    /\ verdict = NoVerdict
    /\ event = NonObject
    /\ fields = NoFields
    /\ mail = NoMail
    /\ emailResp = NoEmailResp
    /\ outbox = <<>>
    /\ responses = <<>>
    /\ log = <<>>

\* Every method, configuration and signature, with the gate bodies.
InitGate ==
    \E b \in GateBodies, m \in Methods, e \in GateEnvs :
        \E sig \in SignaturesFor(b) :
            StartOn([method |-> m, signature |-> sig, body |-> b], e)

\* Correctly signed events of a recognized tag: every combination of buyer
\* email locations, reference locations and amounts.
InitPayment ==
    \E tag \in Tags,
       e1 \in {Undefined, Str(""), Str("pay@example.com")},
       e2 \in {Undefined, Str(""), Str("notes@example.com")},
       e3 \in {Undefined, Str(""), Str("cust@example.com")},
       a1 \in {Undefined, Num(14900), Num(24900), Num(50000)},
       a2 \in {Undefined, Num(24900)},
       r1 \in {Undefined, Str(""), Str("ref_1")},
       r2 \in {Undefined, Null, Str("plink_1")},
       r3 \in {Undefined, Str("order_1")},
       e \in DispatchEnvs :
        StartOn(SignedPost(<<tag, e1, e2, e3, a1, a2, Undefined, Str("INR"),
                             Str("pay_1"), r1, r2, r3>>), e)

\* Correctly signed events of a recognized tag that vary the currency, the
\* payment id and amounts that are no price point.
InitDetail ==
    \E tag \in Tags,
       a1 \in {Undefined, Null, Num(0), Num(14900), Num(14950), Num(24900), Num(24905)},
       a2 \in {Undefined, Num(14900)},
       c1 \in {Undefined, Str("USD")},
       c2 \in {Undefined, Null, Str("INR")},
       pid \in {Undefined, Str("pay_1")},
       e \in DispatchEnvs :
        StartOn(SignedPost(<<tag, Str("pay@example.com"), Undefined, Undefined, a1, a2,
                             c1, c2, pid, Undefined, Undefined, Undefined>>), e)

\* Correctly signed events the handler does not act on.
InitOther ==
    \E tag \in OtherTags, e1 \in {Undefined, Str("pay@example.com")}, e \in DispatchEnvs :
        StartOn(SignedPost(OtherEvent(tag, e1)), e)

Init == InitGate \/ InitPayment \/ InitDetail \/ InitOther

Next ==
    \/ MethodCheck
    \/ ConfigCheck
    \/ ReadBodyEnd
    \/ ReadBodyError
    \/ VerifySignature
    \/ Decode
    \/ Dispatch
    \/ FetchResolve
    \/ FetchReject
    \/ Reply

Spec == Init /\ [][Next]_vars

-----------------------------------------------------------------------------
(* Vocabulary of the properties *)

InLog(x) == \E i \in 1..Len(log) : log[i] = x

Count(x) == Cardinality({i \in 1..Len(log) : log[i] = x})

Before(x, y) == \E i, j \in 1..Len(log) : i < j /\ log[i] = x /\ log[j] = y

\* Absent or empty.
Blank(v) == v \in {Undefined, Null, Str("")}

Contains(seq, x) == \E i \in 1..Len(seq) : seq[i] = x

RECURSIVE ByteLen(_)
\* The number of UTF-8 bytes of a string of characters.
ByteLen(chars) == IF chars = <<>> THEN 0 ELSE Head(chars).w + ByteLen(Tail(chars))

RECURSIVE FirstNonEmpty(_)
\* The first value of the sequence that is not blank; the last one if all are.
FirstNonEmpty(vs) ==
    IF Len(vs) = 1 \/ ~Blank(Head(vs)) THEN Head(vs) ELSE FirstNonEmpty(Tail(vs))

ConfigAbsent ==
    \/ Blank(env.RAZORPAY_WEBHOOK_SECRET)
    \/ Blank(env.RESEND_API_KEY)
    \/ Blank(env.MAIL_FROM)

\* The signature header is the hex digest of the request body under the
\* configured secret.
SignatureGenuine ==
    /\ req.signature.present
    /\ req.signature.chars = HmacSha256Hex(env.RAZORPAY_WEBHOOK_SECRET.s, req.body)

EventTag == Get(event, "event")

\* The handler has decoded the body and has left the dispatch stage.
Dispatched == InLog("parse") /\ pc # "dispatch"

EmailLocations ==
    <<Get(event, "payment.email"), Get(event, "payment.notes.email"),
      Get(event, "payment_link.customer.email"), env.FALLBACK_TO_EMAIL>>

ReferenceLocations ==
    <<Get(event, "payment_link.reference_id"), Get(event, "payment_link.id"),
      Get(event, "payment.order_id"), Str("NA")>>

\* The amount the event carries: the payment's, else the payment link's.
EventAmount ==
    IF Get(event, "payment.amount") \notin {Undefined, Null}
    THEN Get(event, "payment.amount")
    ELSE Get(event, "payment_link.amount")

-----------------------------------------------------------------------------
(* Properties *)

\* C1: when the handler has answered, the error status is the one of the
\* first failing check in the order method, configuration, signature,
\* decode: 405 iff the method is not POST; 500 iff POST and a required
\* configuration value is absent, whatever the body and the signature are;
\* 401 iff method and configuration pass and the signature is not the
\* body's digest; 400 iff those three pass and the body is not JSON.
C1_ErrorStatusByFirstFailingCheck ==
    pc = "done" =>
        /\ Len(responses) = 1
        /\ LET st == responses[1].status
               post == req.method = "POST"
           IN  /\ st = 405 <=> ~post
               /\ st = 500 <=> post /\ ConfigAbsent
               /\ st = 401 <=> post /\ ~ConfigAbsent /\ ~SignatureGenuine
               /\ st = 400 <=> /\ post /\ ~ConfigAbsent /\ SignatureGenuine
                               /\ req.body \in MalformedBodies

\* C1 witness: a body that is not JSON under a wrong signature is answered
\* 401, the earlier of the two failing checks.
C1_Witness ==
    /\ pc = "done"
    /\ responses[1].status = 401
    /\ req.body \in MalformedBodies
    /\ req.signature.present

\* C2: the body is decoded and the email provider called only after
\* verifyRazorpaySignature returned true on the bytes of the body as
\* received; once it returned false the response is 401 and the body is
\* never decoded and the provider never called.
C2_NothingBeforeVerification ==
    /\ (InLog("parse") \/ InLog("parse_failed") \/ InLog("fetch") \/ outbox # <<>>) =>
          /\ verdict.called /\ verdict.result
          /\ rawBody = req.body
          /\ SignatureGenuine
          /\ \A x \in {"parse", "parse_failed", "fetch"} : InLog(x) => Before("verify", x)
    /\ (verdict.called /\ ~verdict.result /\ ~verdict.threw) =>
          /\ pc = "done"
          /\ Len(responses) = 1 /\ responses[1].status = 401
          /\ ~InLog("parse") /\ ~InLog("parse_failed") /\ ~InLog("fetch")
          /\ event = NonObject
          /\ outbox = <<>>

\* C2 witness: a well-formed payment event with a buyer email, wrongly
\* signed, has been rejected without being decoded or mailed.
C2_Witness ==
    /\ verdict.called /\ ~verdict.result
    /\ pc = "done"
    /\ rawBody = Serialize(BuyerEvent)
    /\ req.signature.present /\ Len(req.signature.chars) = DigestLen
    /\ outbox = <<>>

\* C3 (as claimed): every invocation that decoded its body ends with one
\* response of status 200, whatever the email provider call did.
C3_DecodedAlwaysAnswered200 ==
    (InLog("parse") /\ pc \in {"done", "failed"}) =>
        /\ Len(responses) = 1
        /\ responses[1].status = 200

\* C4: verifyRazorpaySignature returns true exactly when the signature is
\* the hex digest of the body under the secret, so false for the digest of
\* any other body or under any other key and for a digest changed in one
\* character; it never throws; and for an absent or empty signature, or one
\* whose byte length is not the digest's, it returns false without
\* reaching timingSafeEqual.
C4_VerifyAcceptsExactlyTheDigest ==
    verdict.called =>
        LET sig == req.signature
            expected == HmacSha256Hex(env.RAZORPAY_WEBHOOK_SECRET.s, rawBody)
        IN  /\ ~verdict.threw
            /\ verdict.result <=> (sig.present /\ sig.chars = expected)
            /\ (sig.present /\ Len(sig.chars) = DigestLen
                  /\ \E i \in 1..DigestLen :
                        \/ sig.chars[i].msg # rawBody
                        \/ sig.chars[i].key # env.RAZORPAY_WEBHOOK_SECRET.s)
                  => ~verdict.result
            /\ (~sig.present \/ sig.chars = <<>> \/ ByteLen(sig.chars) # DigestLen)
                  => ~verdict.result /\ ~verdict.compared

\* C4 witness: a digest changed in a single character has been compared
\* and refused.
C4_Witness ==
    /\ verdict.called /\ verdict.compared /\ ~verdict.result
    /\ Len(req.signature.chars) = DigestLen
    /\ Cardinality({i \in 1..DigestLen :
                      req.signature.chars[i]
                        # HmacSha256Hex(env.RAZORPAY_WEBHOOK_SECRET.s, rawBody)[i]}) = 1

\* C5: a decoded body whose event tag is neither payment.captured nor
\* payment_link.paid (or that has no tag) is answered 200 with ignored
\* equal to the tag, and no call is made to the email provider.
C5_UnrecognizedIgnored ==
    (Dispatched /\ EventTag \notin Tags) =>
        /\ pc = "done"
        /\ Len(responses) = 1
        /\ responses[1].status = 200
        /\ JsonField(responses[1], "ok") = Bool(TRUE)
        /\ JsonField(responses[1], "ignored") = EventTag
        /\ outbox = <<>>
        /\ ~InLog("fetch")

\* C5 witness: an order.paid event that carries a buyer email has been
\* acknowledged as ignored.
C5_Witness ==
    /\ Dispatched
    /\ EventTag = Str("order.paid")
    /\ ~Blank(Get(event, "payment.email"))
    /\ JsonField(responses[1], "ignored") = Str("order.paid")

\* C6: a recognized event with no buyer email at any payload location and
\* no fallback recipient configured is answered 200 with ok true and the
\* note that no email was found, and no call is made to the email provider.
C6_NoEmailNoCall ==
    (Dispatched /\ EventTag \in Tags /\ \A i \in 1..4 : Blank(EmailLocations[i])) =>
        /\ pc = "done"
        /\ Len(responses) = 1
        /\ responses[1].status = 200
        /\ JsonField(responses[1], "ok") = Bool(TRUE)
        /\ JsonField(responses[1], "note") = Str("No email found in payload")
        /\ outbox = <<>>
        /\ ~InLog("fetch")

\* C6 witness: a payment.captured event of 14900 without any email and
\* without a fallback has been answered.
C6_Witness ==
    /\ Dispatched
    /\ EventTag = Str("payment.captured")
    /\ EventAmount = Num(14900)
    /\ \A i \in 1..3 : EmailLocations[i] = Undefined
    /\ env.FALLBACK_TO_EMAIL = Undefined
    /\ JsonField(responses[1], "note") # Undefined

\* C7: once the provider has answered, the response is 200; with ok false
\* and resend_error equal to the provider's response text when the
\* provider's status is not a success status, with ok true and no
\* resend_error when it is.
C7_ProviderFailureReported ==
    (InLog("fetched") /\ pc = "done") =>
        /\ Len(responses) = 1
        /\ responses[1].status = 200
        /\ IF emailResp.status \in 200..299
           THEN /\ JsonField(responses[1], "ok") = Bool(TRUE)
                /\ "resend_error" \notin DOMAIN responses[1].json
           ELSE /\ JsonField(responses[1], "ok") = Bool(FALSE)
                /\ JsonField(responses[1], "resend_error") = Str(emailResp.text)

\* C7 witness: the provider refused the email with status 422.
C7_Witness ==
    /\ InLog("fetched") /\ pc = "done"
    /\ emailResp.status = 422
    /\ JsonField(responses[1], "resend_error") = Str("validation_error")

\* C8: for a recognized event with a resolvable buyer email exactly one
\* email is generated, its content chosen by exact match on the event's
\* amount: 14900 gives the Blueprint link without the Complete Kit link;
\* 24900 gives both links and the amount 249; any other amount, or none,
\* gives the fallback message and neither link.
C8_ContentByExactAmount ==
    (Dispatched /\ EventTag \in Tags /\ \E i \in 1..4 : ~Blank(EmailLocations[i])) =>
        /\ Len(outbox) = 1
        /\ outbox[1].html = mail.html
        /\ LET html == outbox[1].html
           IN  CASE EventAmount = Num(14900) ->
                      /\ Contains(html, BLUEPRINT_LINK)
                      /\ ~Contains(html, COMPLETE_KIT_LINK)
                      /\ ~Contains(html, FALLBACK_MESSAGE)
                      /\ html[3] = "149"
                 [] EventAmount = Num(24900) ->
                      /\ Contains(html, BLUEPRINT_LINK)
                      /\ Contains(html, COMPLETE_KIT_LINK)
                      /\ ~Contains(html, FALLBACK_MESSAGE)
                      /\ html[3] = "249"
                 [] OTHER ->
                      /\ Contains(html, FALLBACK_MESSAGE)
                      /\ ~Contains(html, BLUEPRINT_LINK)
                      /\ ~Contains(html, COMPLETE_KIT_LINK)

\* C8 witness: a payment_link.paid event of 24900 INR with a buyer email
\* has produced an email with both links and the amount 249.
C8_Witness ==
    /\ Dispatched
    /\ EventTag = Str("payment_link.paid")
    /\ EventAmount = Num(24900)
    /\ Len(outbox) = 1
    /\ outbox[1].html[2] = "INR"
    /\ outbox[1].html[3] = "249"
    /\ Contains(outbox[1].html, COMPLETE_KIT_LINK)

\* C9 (as claimed): the buyer email is the first non-empty of payment.email,
\* payment.notes.email, payment_link.customer.email and the fallback, and
\* the reference is the first non-empty of payment_link.reference_id,
\* payment_link.id, payment.order_id and "NA".
C9_FirstNonEmptyWins ==
    (Dispatched /\ EventTag \in Tags) =>
        /\ IF \A i \in 1..4 : Blank(EmailLocations[i])
           THEN Blank(fields.toEmail)
           ELSE fields.toEmail = FirstNonEmpty(EmailLocations)
        /\ fields.reference = FirstNonEmpty(ReferenceLocations)

\* C10: at most one call is made to the email provider and none after a
\* failed one; the call starts after the body has been read to its end;
\* the response follows the end of the call; at most one response is
\* emitted, and a finished invocation that answered emitted exactly one.
C10_OneCallOneResponse ==
    /\ Len(outbox) <= 1
    /\ Count("fetch") = Len(outbox)
    /\ InLog("fetch_failed") => (Count("fetch") = 1 /\ pc = "failed" /\ responses = <<>>)
    /\ InLog("fetch") => (Before("read", "fetch") /\ rawBody = req.body)
    /\ (InLog("fetch") /\ responses # <<>>) =>
          (Before("fetch", "fetched") /\ Before("fetched", "respond"))
    /\ Len(responses) <= 1
    /\ Count("respond") = Len(responses)
    /\ pc = "done" <=> Len(responses) = 1

\* C10 witness: an invocation that read the body, called the provider once
\* and then answered.
C10_Witness ==
    /\ pc = "done"
    /\ Len(outbox) = 1
    /\ Len(responses) = 1
    /\ log = <<"read", "verify", "parse", "fetch", "fetched", "respond">>

====
